---- MODULE Spec2Model ----
(***************************************************************************)
(* Model of the instrumented branch-aware session manager of db-fork-bench *)
(*                                                                         *)
(*   src/dblib/result_collector.py   ResultCollector (the recorder)        *)
(*   src/dblib/db_api.py             DBToolSuite (the session contract)    *)
(*   src/dblib/neon.py               NeonToolSuite (the connection manager)*)
(*   src/util/sql_parse.py           the SQL operation classifier          *)
(*                                                                         *)
(* Python values are modelled as follows.  A str is a sequence of          *)
(* one-character strings where its characters matter (SQL text) and a TLA+ *)
(* string where it is opaque (branch names, table names).  A branch id is  *)
(* a natural number, 0 standing for None.  A connection URI is a tuple:    *)
(* <<"None">>, <<>> (the empty str) or <<"postgresql", id>>.  An exception *)
(* is the name of its kind; "ok" is a normal return.                       *)
(***************************************************************************)
EXTENDS Integers, Sequences, FiniteSets, TLC

VARIABLES
    rc,      \* the ResultCollector object
    db,      \* the NeonToolSuite object
    neon,    \* the control plane: the branches of the project
    driver,  \* the driver: how many connections opened for the session are live
    last,    \* the operation just performed: its arguments, outcome and external calls
    statement,  \* the SQL statement handed to the classifier, as its tokens
    kind     \* what the classifier returned for it, "None" before the call

vars == <<rc, db, neon, driver, last, statement, kind>>

----------------------------------------------------------------------------
\* Bounds of the model

\* the records the sequence may hold
MaxRecords == 2

\* the branches the project may hold
MaxBranches == 3

\* the tokens of a statement handed to the classifier
MaxTokens == 3

----------------------------------------------------------------------------
\* Python values

OK == "ok"

NoId == 0

NoneUri == <<"None">>

EmptyUri == <<>>

UriOf(id) == <<"postgresql", id>>

Truthy(v) == v # NoneUri /\ v # EmptyUri

TruthyId(id) == id # NoId

Unset == -1

OpType ==
    {"UNSPECIFIED", "BRANCH_CREATE", "BRANCH_CONNECT", "READ", "INSERT", "UPDATE", "COMMIT"}

----------------------------------------------------------------------------
\* ResultCollector (src/dblib/result_collector.py)

RunId == "run"

reset_metrics(r) ==
    [r EXCEPT !.current_op_type = "UNSPECIFIED",
              !.current_latency = 0,
              !.num_keys_touched = 0,
              !.sql_query = <<>>]

\* reset() on an object r; the attributes reset() does not assign (run_id,
\* output_dir, _seed) keep the value they have.
reset(r) ==
    reset_metrics([r EXCEPT !.results = <<>>,
                            !.iteration_counter = 0,
                            !.current_table_name = "",
                            !.current_table_schema = "",
                            !.initial_db_size = 0])

\* __init__: reset() on the new object, whose _seed attribute does not exist.
NewResultCollector ==
    reset([results |-> <<>>, iteration_counter |-> 0,
           current_op_type |-> "UNSPECIFIED", current_latency |-> 0,
           num_keys_touched |-> 0, sql_query |-> <<>>,
           current_table_name |-> "", current_table_schema |-> "",
           initial_db_size |-> 0, seed |-> Unset, run_id |-> RunId])

\* set_context as it would be if the records shared the context with the
\* recorder instead of holding a copy of it
set_context_shared(r, c) ==
    [r EXCEPT !.current_table_name = c.table_name,
              !.current_table_schema = c.table_schema,
              !.initial_db_size = c.initial_db_size,
              !.seed = c.seed,
              !.results = [k \in DOMAIN @ |->
                              [@[k] EXCEPT !.table_name = c.table_name,
                                           !.table_schema = c.table_schema,
                                           !.initial_db_size = c.initial_db_size,
                                           !.random_seed = c.seed]]]

set_context(r, c) ==
    [r EXCEPT !.current_table_name = c.table_name,
              !.current_table_schema = c.table_schema,
              !.initial_db_size = c.initial_db_size,
              !.seed = c.seed]

\* _validate_and_set_op_type as it would be without the comparison
validate_and_set_op_type_unchecked(r, op_type) ==
    [rc |-> [r EXCEPT !.current_op_type = op_type], err |-> OK]

validate_and_set_op_type(r, op_type) ==
    IF r.current_op_type # "UNSPECIFIED" /\ r.current_op_type # op_type
    THEN [rc |-> r, err |-> "OperationKindConflict"]
    ELSE [rc |-> [r EXCEPT !.current_op_type = op_type], err |-> OK]

\* maybe_time_ops as it would be with the latency stored in a `finally`
maybe_time_ops_finally(r, timed, op_type, body_err, t0, t1) ==
    IF ~timed THEN [rc |-> r, err |-> body_err]
    ELSE IF body_err # OK
    THEN [rc |-> [r EXCEPT !.current_latency = t1 - t0], err |-> body_err]
    ELSE IF r.current_op_type # "UNSPECIFIED" /\ r.current_op_type # op_type
    THEN [rc |-> r, err |-> "OperationKindConflict"]
    ELSE [rc |-> [r EXCEPT !.current_op_type = op_type, !.current_latency = t1 - t0],
          err |-> OK]

\* maybe_time_ops as it would be with the latency stored ahead of the kind check
maybe_time_ops_latency_first(r, timed, op_type, body_err, t0, t1) ==
    IF ~timed THEN [rc |-> r, err |-> body_err]
    ELSE IF body_err # OK THEN [rc |-> r, err |-> body_err]
    ELSE LET v == validate_and_set_op_type([r EXCEPT !.current_latency = t1 - t0], op_type)
         IN  v

\* maybe_time_ops as it would be if it added the duration to the latency
maybe_time_ops_accumulating(r, timed, op_type, body_err, t0, t1) ==
    IF ~timed THEN [rc |-> r, err |-> body_err]
    ELSE IF body_err # OK THEN [rc |-> r, err |-> body_err]
    ELSE LET v == validate_and_set_op_type(r, op_type)
         IN  IF v.err # OK THEN v
             ELSE [rc |-> [v.rc EXCEPT !.current_latency = @ + (t1 - t0)], err |-> OK]

\* The exit of the maybe_time_ops context manager: body_err is how the body
\* ended, t0 and t1 the two readings of time.perf_counter().
maybe_time_ops(r, timed, op_type, body_err, t0, t1) ==
    IF ~timed THEN [rc |-> r, err |-> body_err]
    ELSE IF body_err # OK THEN [rc |-> r, err |-> body_err]
    ELSE LET v == validate_and_set_op_type(r, op_type)
         IN  IF v.err # OK THEN v
             ELSE [rc |-> [v.rc EXCEPT !.current_latency = t1 - t0], err |-> OK]

\* record_num_keys_touched as it would be if it added to the count
record_num_keys_touched_added(r, n) == [r EXCEPT !.num_keys_touched = @ + n]

record_num_keys_touched(r, n) == [r EXCEPT !.num_keys_touched = n]

record_sql_query(r, q) == [r EXCEPT !.sql_query = q]

\* The Result proto that flush_record fills in.
Result(r) ==
    [run_id |-> r.run_id,
     iteration_number |-> r.iteration_counter,
     table_name |-> r.current_table_name,
     table_schema |-> r.current_table_schema,
     initial_db_size |-> r.initial_db_size,
     random_seed |-> r.seed,
     op_type |-> r.current_op_type,
     num_keys_touched |-> r.num_keys_touched,
     latency |-> r.current_latency,
     sql_query |-> r.sql_query]

\* flush_record as it would be without the increment of iteration_counter
flush_record_no_increment(r) ==
    IF r.seed = Unset
    THEN [rc |-> r, err |-> "AttributeError"]
    ELSE [rc |-> reset_metrics([r EXCEPT !.results = Append(@, Result(r))]),
          err |-> OK]

\* flush_record as it would be if it reset the context with the metrics
flush_record_resets_context(r) ==
    IF r.seed = Unset
    THEN [rc |-> r, err |-> "AttributeError"]
    ELSE [rc |-> reset_metrics([r EXCEPT !.results = Append(@, Result(r)),
                                         !.iteration_counter = @ + 1,
                                         !.current_table_name = "",
                                         !.current_table_schema = "",
                                         !.initial_db_size = 0]),
          err |-> OK]

\* flush_record reads self._seed, which exists only once set_context has run.
flush_record(r) ==
    IF r.seed = Unset
    THEN [rc |-> r, err |-> "AttributeError"]
    ELSE [rc |-> reset_metrics([r EXCEPT !.results = Append(@, Result(r)),
                                         !.iteration_counter = @ + 1]),
          err |-> OK]

\* the integer code of each OpType, which the Result proto holds in op_type
OpTypeCode ==
    [k \in OpType |->
        CASE k = "UNSPECIFIED" -> 0
          [] k = "BRANCH_CREATE" -> 1
          [] k = "BRANCH_CONNECT" -> 2
          [] k = "READ" -> 3
          [] k = "INSERT" -> 4
          [] k = "UPDATE" -> 5
          [] k = "COMMIT" -> 6]

\* the row write_to_parquet builds from a Result; the disk sizes are never
\* set by the recorder and keep the proto's default
Row(result) ==
    [run_id |-> result.run_id,
     random_seed |-> result.random_seed,
     iteration_number |-> result.iteration_number,
     op_type |-> OpTypeCode[result.op_type],
     initial_db_size |-> result.initial_db_size,
     table_name |-> result.table_name,
     table_schema |-> result.table_schema,
     num_keys_touched |-> result.num_keys_touched,
     latency |-> result.latency,
     disk_size_before |-> 0,
     disk_size_after |-> 0,
     sql_query |-> result.sql_query]

\* write_to_parquet as it would be if it wrote the latest record first
write_to_parquet_latest_first(r) ==
    IF r.results = <<>>
    THEN [rc |-> r, written |-> FALSE, rows |-> <<>>]
    ELSE [rc |-> r, written |-> TRUE,
          rows |-> [k \in DOMAIN r.results |->
                       Row(r.results[Len(r.results) + 1 - k])]]

\* write_to_parquet: written tells whether pq.write_table is called, rows is
\* the table it is called with
write_to_parquet(r) ==
    IF r.results = <<>>
    THEN [rc |-> r, written |-> FALSE, rows |-> <<>>]
    ELSE [rc |-> r, written |-> TRUE,
          rows |-> [k \in DOMAIN r.results |-> Row(r.results[k])]]

----------------------------------------------------------------------------
\* The SQL operation classifier (src/util/sql_parse.py).  A str is a
\* sequence of one-character strings; s[i] of Python is s[i + 1] here.

Lowercase ==
    <<"a", "b", "c", "d", "e", "f", "g", "h", "i", "j", "k", "l", "m",
      "n", "o", "p", "q", "r", "s", "t", "u", "v", "w", "x", "y", "z">>

Uppercase ==
    <<"A", "B", "C", "D", "E", "F", "G", "H", "I", "J", "K", "L", "M",
      "N", "O", "P", "Q", "R", "S", "T", "U", "V", "W", "X", "Y", "Z">>

\* str.upper() on one character
UpperChar(c) ==
    IF \E i \in DOMAIN Lowercase : Lowercase[i] = c
    THEN Uppercase[CHOOSE i \in DOMAIN Lowercase : Lowercase[i] = c]
    ELSE c

Upper(s) == [i \in DOMAIN s |-> UpperChar(s[i])]

\* the characters str.strip(), str.lstrip() and str.split() treat as whitespace
IsSpace(c) == c \in {" ", "\t", "\n", "\r", "\f"}

RECURSIVE LStrip(_)
LStrip(s) == IF s # <<>> /\ IsSpace(Head(s)) THEN LStrip(Tail(s)) ELSE s

RECURSIVE RStrip(_)
RStrip(s) ==
    IF s # <<>> /\ IsSpace(s[Len(s)]) THEN RStrip(SubSeq(s, 1, Len(s) - 1)) ELSE s

Strip(s) == RStrip(LStrip(s))

StartsWith(s, prefix) ==
    Len(s) >= Len(prefix) /\ SubSeq(s, 1, Len(prefix)) = prefix

\* s[i : i + 2] of Python, i counted from 1
Two(s, i) == SubSeq(s, i, IF i + 1 <= Len(s) THEN i + 1 ELSE Len(s))

\* s.split(sep)[0]: the text before the first sep
RECURSIVE SplitFirst(_, _)
SplitFirst(s, sep) ==
    IF s = <<>> \/ Head(s) = sep THEN <<>>
    ELSE <<Head(s)>> \o SplitFirst(Tail(s), sep)

\* s.split()[0] of a stripped, non-empty s: the first whitespace-delimited token
RECURSIVE FirstToken(_)
FirstToken(s) ==
    IF s = <<>> \/ IsSpace(Head(s)) THEN <<>>
    ELSE <<Head(s)>> \o FirstToken(Tail(s))

RECURSIVE LStripChar(_, _)
LStripChar(s, c) == IF s # <<>> /\ Head(s) = c THEN LStripChar(Tail(s), c) ELSE s

RECURSIVE RStripChar(_, _)
RStripChar(s, c) ==
    IF s # <<>> /\ s[Len(s)] = c THEN RStripChar(SubSeq(s, 1, Len(s) - 1), c) ELSE s

\* the inner loop of a "--" comment: the index of the next newline, or Len(s) + 1
RECURSIVE SkipLine(_, _)
SkipLine(s, i) == IF i <= Len(s) /\ s[i] # "\n" THEN SkipLine(s, i + 1) ELSE i

\* the inner loop of a "/*" comment, entered with i past the opening marker:
\* it stops past the closing marker, or at the last character when there is none
RECURSIVE SkipBlock(_, _)
SkipBlock(s, i) ==
    IF i < Len(s)
    THEN IF Two(s, i) = <<"*", "/">> THEN i + 2 ELSE SkipBlock(s, i + 1)
    ELSE i

RECURSIVE RemoveLoop(_, _, _, _, _)
RemoveLoop(s, i, in_string, string_char, result) ==
    IF i > Len(s) THEN result
    ELSE IF ~in_string /\ s[i] \in {"\"", "'"}
         THEN RemoveLoop(s, i + 1, TRUE, s[i], Append(result, s[i]))
    ELSE IF in_string
         THEN RemoveLoop(s, i + 1,
                         ~(s[i] = string_char /\ (i = 1 \/ s[i - 1] # "\\")),
                         string_char, Append(result, s[i]))
    ELSE IF Two(s, i) = <<"-", "-">>
         THEN LET j == SkipLine(s, i)
              IN  IF j <= Len(s)
                  THEN RemoveLoop(s, j + 1, in_string, string_char, Append(result, "\n"))
                  ELSE RemoveLoop(s, j, in_string, string_char, result)
    ELSE IF Two(s, i) = <<"/", "*">>
         THEN RemoveLoop(s, SkipBlock(s, i + 2), in_string, string_char, result)
    ELSE RemoveLoop(s, i + 1, in_string, string_char, Append(result, s[i]))

remove_sql_comments(sql) == RemoveLoop(sql, 1, FALSE, "", <<>>)

KwSELECT == <<"S", "E", "L", "E", "C", "T">>

KwINSERT == <<"I", "N", "S", "E", "R", "T">>

KwUPDATE == <<"U", "P", "D", "A", "T", "E">>

KwDELETE == <<"D", "E", "L", "E", "T", "E">>

KwWITH == <<"W", "I", "T", "H">>

StartsMainStatement(s) ==
    \E kw \in {KwSELECT, KwINSERT, KwUPDATE, KwDELETE} : StartsWith(s, kw)

RECURSIVE ExtractLoop(_, _, _)
ExtractLoop(sql, i, depth) ==
    IF i > Len(sql) THEN sql
    ELSE IF sql[i] = "(" THEN ExtractLoop(sql, i + 1, depth + 1)
    ELSE IF sql[i] = ")" THEN ExtractLoop(sql, i + 1, depth - 1)
    ELSE IF depth = 0 /\ sql[i] \notin {" ", "\t", "\n", ","}
            /\ StartsMainStatement(Upper(LStrip(SubSeq(sql, i, Len(sql)))))
         THEN LStrip(SubSeq(sql, i, Len(sql)))
    ELSE ExtractLoop(sql, i + 1, depth)

extract_main_statement_after_cte(sql) == ExtractLoop(sql, 1, 0)

\* get_first_keyword without the upper-casing (for C28)
get_first_keyword_case_sensitive(sql) ==
    LET stripped == Strip(sql)
    IN  IF stripped = <<>> THEN <<>>
        ELSE RStripChar(LStripChar(FirstToken(stripped), "("), ")")

get_first_keyword(sql) ==
    LET stripped == Strip(sql)
    IN  IF stripped = <<>> THEN <<>>
        ELSE RStripChar(LStripChar(Upper(FirstToken(stripped)), "("), ")")

\* get_sql_operation_keyword without the split at ";" (for C27)
get_sql_operation_keyword_whole_batch(sql) ==
    IF sql = <<>> \/ Strip(sql) = <<>> THEN <<>>
    ELSE LET first == Strip(remove_sql_comments(sql))
         IN  IF first = <<>> THEN <<>>
             ELSE IF StartsWith(LStrip(Upper(first)), KwWITH)
                  THEN LET main_stmt == extract_main_statement_after_cte(first)
                       IN  get_first_keyword(IF main_stmt # <<>> THEN main_stmt ELSE first)
                  ELSE get_first_keyword(first)

get_sql_operation_keyword(sql) ==
    IF sql = <<>> \/ Strip(sql) = <<>> THEN <<>>
    ELSE LET first == Strip(SplitFirst(remove_sql_comments(sql), ";"))
         IN  IF first = <<>> THEN <<>>
             ELSE IF StartsWith(LStrip(Upper(first)), KwWITH)
                  THEN LET main_stmt == extract_main_statement_after_cte(first)
                       IN  get_first_keyword(IF main_stmt # <<>> THEN main_stmt ELSE first)
                  ELSE get_first_keyword(first)

GetOpTypeFromSQL(sql) ==
    LET keyword == get_sql_operation_keyword(sql)
    IN  IF keyword = <<>> THEN "UNSPECIFIED"
        ELSE IF keyword = KwSELECT THEN "READ"
        ELSE IF keyword = KwINSERT THEN "INSERT"
        ELSE IF keyword = KwUPDATE THEN "UPDATE"
        ELSE IF keyword = KwDELETE THEN "UPDATE"
        ELSE IF keyword = KwWITH THEN "READ"
        ELSE "UNSPECIFIED"

----------------------------------------------------------------------------
\* The driver and the control plane (external collaborators)

\* self.conn is None
NoConn == [ref |-> "None", uri |-> EmptyUri, closed |-> TRUE, autocommit |-> FALSE]

\* the connection object psycopg2.connect(uri) returns
NewConn(uri) == [ref |-> "pgconn", uri |-> uri, closed |-> FALSE, autocommit |-> FALSE]

\* connection.close(): closing a closed connection does nothing
CloseConn(c) == [c EXCEPT !.closed = TRUE]

LiveAfterClose(live, c) == IF c.closed THEN live ELSE live - 1

\* the id the control plane gives the next branch it creates
FreshId(cp) == Cardinality(cp) + 1

\* the dicts _get_neon_branches can build from the listing: one id per name,
\* whichever of the branches of that name comes last in the response
Listings(cp) ==
    {f \in [{b.name : b \in cp} -> {b.id : b \in cp}] :
        \A n \in DOMAIN f : \E b \in cp : b.name = n /\ b.id = f[n]}

----------------------------------------------------------------------------
\* NeonToolSuite (src/dblib/neon.py)

\* __init__ of a session opened on a branch, over the connection init_for_bench made
NewNeonToolSuite(branch_name, branch_id, autocommit) ==
    [conn |-> [NewConn(UriOf(branch_id)) EXCEPT !.autocommit = autocommit],
     current_branch_name |-> IF branch_name # "" THEN branch_name ELSE "production",
     current_branch_id |-> branch_id,
     autocommit |-> autocommit,
     all_branches |-> (branch_name :> [id |-> branch_id, uri |-> NoneUri])]

\* The result of an operation: the objects as it leaves them, how it ended,
\* and the calls it made to the driver and the control plane, in order.
Outcome(r, s, cp, live, err, calls) ==
    [rc |-> r, db |-> s, neon |-> cp, driver |-> live, err |-> err, calls |-> calls]

\* The value a call returns to its caller, when it returns one: out is the
\* Outcome of the call, res the value (NoneRes for a call that raised).
NoneRes == <<"None">>

Returning(out, res) ==
    [rc |-> out.rc, db |-> out.db, neon |-> out.neon, driver |-> out.driver,
     err |-> out.err, calls |-> out.calls,
     res |-> IF out.err = OK THEN res ELSE NoneRes]

\* _create_branch_impl; api_ok: the control plane accepts the creation
create_branch_impl(r, s, cp, live, branch_name, parent_id, api_ok) ==
    IF ~api_ok
    THEN Outcome(r, s, cp, live, "ExternalAPIError", <<"branch_create">>)
    ELSE LET new_id == FreshId(cp)
         IN  Outcome(r,
                     [s EXCEPT !.all_branches =
                         (branch_name :> [id |-> new_id, uri |-> EmptyUri]) @@ @],
                     cp \cup {[name |-> branch_name, id |-> new_id, parent_id |-> parent_id]},
                     live, OK, <<"branch_create">>)

\* the swap as it would be without self.conn.close()
swap_connection_no_close(r, s, cp, live, branch_name, branch_id, uri, fail, calls) ==
    IF fail = "connect"
    THEN Outcome(r, s, cp, live, "DriverError", calls \o <<"connect">>)
    ELSE Outcome(r,
                 [s EXCEPT
                     !.conn = [NewConn(uri) EXCEPT !.autocommit = s.autocommit],
                     !.current_branch_name = branch_name,
                     !.current_branch_id = branch_id],
                 cp, live + 1, OK,
                 calls \o <<"connect">>
                       \o (IF s.autocommit THEN <<"set_isolation_level">> ELSE <<>>))

\* the swap as it would be without the update of current_branch_id
swap_connection_stale_branch(r, s, cp, live, branch_name, branch_id, uri, fail, calls) ==
    LET closed == [s EXCEPT !.conn = CloseConn(@)]
        live1 == LiveAfterClose(live, s.conn)
    IN  IF fail = "connect"
        THEN Outcome(r, closed, cp, live1, "DriverError", calls \o <<"close", "connect">>)
        ELSE Outcome(r,
                     [closed EXCEPT
                         !.conn = [NewConn(uri) EXCEPT !.autocommit = s.autocommit],
                         !.current_branch_name = branch_name],
                     cp, live1 + 1, OK,
                     calls \o <<"close", "connect">>
                           \o (IF s.autocommit THEN <<"set_isolation_level">> ELSE <<>>))

\* the swap as it would be with the new connection opened before the old one
\* is closed
swap_connection_open_first(r, s, cp, live, branch_name, branch_id, uri, fail, calls) ==
    IF fail = "connect"
    THEN Outcome(r, s, cp, live, "DriverError", calls \o <<"connect">>)
    ELSE Outcome(r,
                 [s EXCEPT
                     !.conn = [NewConn(uri) EXCEPT !.autocommit = s.autocommit],
                     !.current_branch_name = branch_name,
                     !.current_branch_id = branch_id],
                 cp, LiveAfterClose(live, s.conn) + 1, OK,
                 calls \o <<"connect", "close">>
                       \o (IF s.autocommit THEN <<"set_isolation_level">> ELSE <<>>))

\* swap_connection as it would be without the isolation level set on the new
\* connection
swap_connection_default_isolation(r, s, cp, live, branch_name, branch_id, uri, fail, calls) ==
    LET closed == [s EXCEPT !.conn = CloseConn(@)]
        live1 == LiveAfterClose(live, s.conn)
    IN  IF fail = "connect"
        THEN Outcome(r, closed, cp, live1, "DriverError", calls \o <<"close", "connect">>)
        ELSE Outcome(r,
                     [closed EXCEPT
                         !.conn = NewConn(uri),
                         !.current_branch_name = branch_name,
                         !.current_branch_id = branch_id],
                     cp, live1 + 1, OK, calls \o <<"close", "connect">>)

\* The last part of _connect_branch_impl (lines 194-200): swap the connection.
swap_connection(r, s, cp, live, branch_name, branch_id, uri, fail, calls) ==
    LET closed == [s EXCEPT !.conn = CloseConn(@)]
        live1 == LiveAfterClose(live, s.conn)
    IN  IF fail = "connect"
        THEN Outcome(r, closed, cp, live1, "DriverError", calls \o <<"close", "connect">>)
        ELSE Outcome(r,
                     [closed EXCEPT
                         !.conn = [NewConn(uri) EXCEPT !.autocommit = s.autocommit],
                         !.current_branch_name = branch_name,
                         !.current_branch_id = branch_id],
                     cp, live1 + 1, OK,
                     calls \o <<"close", "connect">>
                           \o (IF s.autocommit THEN <<"set_isolation_level">> ELSE <<>>))

\* resolve_uri as it would be if it asked for the URI of the branch the
\* session is on
resolve_uri_of_current_branch(r, s, cp, live, branch_name, branch_id, uri, fail, calls) ==
    IF Truthy(uri)
    THEN swap_connection(r, s, cp, live, branch_name, branch_id, uri, fail, calls)
    ELSE IF s.conn.closed
    THEN Outcome(r, s, cp, live, "DriverError", calls \o <<"get_dsn_parameters">>)
    ELSE IF fail = "connection_uri"
    THEN Outcome(r, s, cp, live, "ExternalAPIError",
                 calls \o <<"get_dsn_parameters", "connection_uri">>)
    ELSE swap_connection(r,
                         [s EXCEPT !.all_branches[branch_name] =
                             [id |-> branch_id, uri |-> UriOf(s.current_branch_id)]],
                         cp, live, branch_name, branch_id, UriOf(s.current_branch_id), fail,
                         calls \o <<"get_dsn_parameters", "connection_uri">>)

\* The middle part of _connect_branch_impl (lines 185-192): resolve the URI.
resolve_uri(r, s, cp, live, branch_name, branch_id, uri, fail, calls) ==
    IF Truthy(uri)
    THEN swap_connection(r, s, cp, live, branch_name, branch_id, uri, fail, calls)
    ELSE IF s.conn.closed
    THEN Outcome(r, s, cp, live, "DriverError", calls \o <<"get_dsn_parameters">>)
    ELSE IF fail = "connection_uri"
    THEN Outcome(r, s, cp, live, "ExternalAPIError",
                 calls \o <<"get_dsn_parameters", "connection_uri">>)
    ELSE swap_connection(r,
                         [s EXCEPT !.all_branches[branch_name] =
                             [id |-> branch_id, uri |-> UriOf(branch_id)]],
                         cp, live, branch_name, branch_id, UriOf(branch_id), fail,
                         calls \o <<"get_dsn_parameters", "connection_uri">>)

\* _connect_branch_impl; fail: the external call that fails, if it is made;
\* listing: the dict _get_neon_branches returns, if it is called
connect_branch_impl(r, s, cp, live, branch_name, fail, listing) ==
    IF branch_name \notin DOMAIN s.all_branches
    THEN Outcome(r, s, cp, live, "KeyError", <<>>)
    ELSE LET entry == s.all_branches[branch_name]
         IN  IF TruthyId(entry.id)
             THEN resolve_uri(r, s, cp, live, branch_name, entry.id, entry.uri, fail, <<>>)
             ELSE IF fail = "list_branches"
             THEN Outcome(r, s, cp, live, "ExternalAPIError", <<"list_branches">>)
             ELSE IF branch_name \notin DOMAIN listing
             THEN Outcome(r, s, cp, live, "BranchNotFound", <<"list_branches">>)
             ELSE resolve_uri(r, s, cp, live, branch_name, listing[branch_name],
                              entry.uri, fail, <<"list_branches">>)

----------------------------------------------------------------------------
\* DBToolSuite (src/dblib/db_api.py)

\* _require_connection: `if not self.conn`; a connection object is true
\* whether or not it is closed
require_connection(s) == s.conn.ref # "None"

close_connection(s) ==
    IF s.conn.ref # "None" THEN [s EXCEPT !.conn = NoConn] ELSE s

\* what follows a `with maybe_time_ops(...)` block: the scope's exit, then the
\* flush when flushed holds; body is the Outcome of the block's body
timed_then_flush(body, timed, flushed, op_type, t0, t1) ==
    LET scope == maybe_time_ops(body.rc, timed, op_type, body.err, t0, t1)
    IN  IF scope.err # OK
        THEN [body EXCEPT !.rc = scope.rc, !.err = scope.err]
        ELSE IF flushed
        THEN LET f == flush_record(scope.rc)
             IN  [body EXCEPT !.rc = f.rc, !.err = f.err]
        ELSE [body EXCEPT !.rc = scope.rc]

create_branch(r, s, cp, live, branch_name, parent_id, api_ok, t0, t1) ==
    IF ~require_connection(s)
    THEN Outcome(r, s, cp, live, "NotConnected", <<>>)
    ELSE timed_then_flush(
             create_branch_impl(r, s, cp, live, branch_name, parent_id, api_ok),
             TRUE, TRUE, "BRANCH_CREATE", t0, t1)

\* connect_branch as it would be if it flushed whether timed or not
connect_branch_always_flushed(r, s, cp, live, branch_name, timed, fail, listing, t0, t1) ==
    IF ~require_connection(s)
    THEN Outcome(r, s, cp, live, "NotConnected", <<>>)
    ELSE timed_then_flush(
             connect_branch_impl(r, s, cp, live, branch_name, fail, listing),
             timed, TRUE, "BRANCH_CONNECT", t0, t1)

connect_branch(r, s, cp, live, branch_name, timed, fail, listing, t0, t1) ==
    IF ~require_connection(s)
    THEN Outcome(r, s, cp, live, "NotConnected", <<>>)
    ELSE timed_then_flush(
             connect_branch_impl(r, s, cp, live, branch_name, fail, listing),
             timed, timed, "BRANCH_CONNECT", t0, t1)

\* _get_current_branch_impl as it would be if it read the id from the cache
get_current_branch_of_cache(s) ==
    IF s.current_branch_name \in DOMAIN s.all_branches
    THEN <<s.current_branch_name, s.all_branches[s.current_branch_name].id>>
    ELSE <<s.current_branch_name, s.current_branch_id>>

\* _get_current_branch_impl
get_current_branch_impl(s) == <<s.current_branch_name, s.current_branch_id>>

get_current_branch(r, s, cp, live) ==
    IF ~require_connection(s)
    THEN Returning(Outcome(r, s, cp, live, "NotConnected", <<>>), NoneRes)
    ELSE Returning(Outcome(r, s, cp, live, OK, <<>>), get_current_branch_impl(s))

\* the body of the scope in commit_changes as it would be with the commit
\* ahead of the hook
commit_body_commit_first(r, s, cp, live, prepare_ok, driver_ok) ==
    IF s.conn.closed \/ ~driver_ok
    THEN Outcome(r, s, cp, live, "DriverError", <<"commit">>)
    ELSE IF ~prepare_ok
    THEN Outcome(r, s, cp, live, "PrepareError", <<"commit", "_prepare_commit">>)
    ELSE Outcome(r, s, cp, live, OK, <<"commit", "_prepare_commit">>)

\* The body of the scope in commit_changes: _prepare_commit, then
\* conn.commit().  The hook of DBToolSuite does nothing; prepare_ok is whether
\* the hook of a backend that overrides it returns normally.
commit_body(r, s, cp, live, prepare_ok, driver_ok) ==
    IF ~prepare_ok
    THEN Outcome(r, s, cp, live, "PrepareError", <<"_prepare_commit">>)
    ELSE IF s.conn.closed \/ ~driver_ok
    THEN Outcome(r, s, cp, live, "DriverError", <<"_prepare_commit", "commit">>)
    ELSE Outcome(r, s, cp, live, OK, <<"_prepare_commit", "commit">>)

commit_changes(r, s, cp, live, timed, prepare_ok, driver_ok, t0, t1) ==
    IF ~require_connection(s)
    THEN Outcome(r, s, cp, live, "NotConnected", <<>>)
    ELSE timed_then_flush(commit_body(r, s, cp, live, prepare_ok, driver_ok),
                          timed, timed, "COMMIT", t0, t1)

\* str(vars) of the argument tuples the model passes
ReprVars(args) ==
    IF args = <<>> THEN <<"(", ")">>
    ELSE <<"(">> \o args \o <<",", ")">>

\* f"{query} -- args: {vars}" if vars else query
query_with_args(query, args) ==
    IF args # <<>>
    THEN query \o <<" ", "-", "-", " ", "a", "r", "g", "s", ":", " ">> \o ReprVars(args)
    ELSE query

\* cur.fetchall() when cur.description is not None: the rows the database
\* answers the statement with; res stays None for a statement with no result set
fetch_result(query, args) ==
    IF get_sql_operation_keyword(query) \in {KwSELECT, KwWITH}
    THEN <<"rows">> \o query \o args
    ELSE NoneRes

\* execute_sql as it would be without the call of record_sql_query
execute_sql_query_not_recorded(r, s, cp, live, query, args, timed, driver_ok, t0, t1) ==
    IF s.conn.closed
    THEN Outcome(r, s, cp, live, "DriverError", <<"cursor">>)
    ELSE LET body == Outcome(r, s, cp, live,
                             IF driver_ok THEN OK ELSE "DriverError",
                             <<"cursor", "execute">>)
             scope == maybe_time_ops(r, timed, GetOpTypeFromSQL(query), body.err, t0, t1)
         IN  IF scope.err # OK
             THEN [body EXCEPT !.rc = scope.rc, !.err = scope.err]
             ELSE IF timed
             THEN LET f == flush_record(scope.rc)
                  IN  [body EXCEPT !.rc = f.rc, !.err = f.err]
             ELSE [body EXCEPT !.rc = scope.rc]

\* execute_sql as it would be with the query recorded ahead of the try block
execute_sql_query_recorded_first(r, s, cp, live, query, args, timed, driver_ok, t0, t1) ==
    LET r1 == IF timed THEN record_sql_query(r, query_with_args(query, args)) ELSE r
    IN  IF s.conn.closed
        THEN Outcome(r1, s, cp, live, "DriverError", <<"cursor">>)
        ELSE LET body == Outcome(r1, s, cp, live,
                                 IF driver_ok THEN OK ELSE "DriverError",
                                 <<"cursor", "execute">>)
                 scope == maybe_time_ops(r1, timed, GetOpTypeFromSQL(query), body.err, t0, t1)
             IN  IF scope.err # OK
                 THEN [body EXCEPT !.rc = scope.rc, !.err = scope.err]
                 ELSE IF timed
                 THEN LET f == flush_record(scope.rc)
                      IN  [body EXCEPT !.rc = f.rc, !.err = f.err]
                 ELSE [body EXCEPT !.rc = scope.rc]

\* the try block of execute_sql (lines 235-246) and the recording after it
execute_sql_recorded(r, s, cp, live, query, args, timed, driver_ok, t0, t1) ==
    IF s.conn.closed
    THEN Outcome(r, s, cp, live, "DriverError", <<"cursor">>)
    ELSE LET body == Outcome(r, s, cp, live,
                             IF driver_ok THEN OK ELSE "DriverError",
                             <<"cursor", "execute">>)
             scope == maybe_time_ops(r, timed, GetOpTypeFromSQL(query), body.err, t0, t1)
         IN  IF scope.err # OK
             THEN [body EXCEPT !.rc = scope.rc, !.err = scope.err]
             ELSE IF timed
             THEN LET f == flush_record(
                               record_sql_query(scope.rc, query_with_args(query, args)))
                  IN  [body EXCEPT !.rc = f.rc, !.err = f.err]
             ELSE [body EXCEPT !.rc = scope.rc]

execute_sql(r, s, cp, live, query, args, timed, driver_ok, t0, t1) ==
    IF ~require_connection(s)
    THEN Returning(Outcome(r, s, cp, live, "NotConnected", <<>>), NoneRes)
    ELSE Returning(execute_sql_recorded(r, s, cp, live, query, args, timed, driver_ok,
                                        t0, t1),
                   fetch_result(query, args))

----------------------------------------------------------------------------
\* The inputs the operations are called with.  An input profile names, for
\* every argument and every outcome of an external call, the values tried.

Context1 == [table_name |-> "t1", table_schema |-> "s1", initial_db_size |-> 1, seed |-> 1]

Context2 == [table_name |-> "t2", table_schema |-> "s2", initial_db_size |-> 2, seed |-> 2]

QuerySelect == <<"S", "E", "L", "E", "C", "T", " ", "1">>

QueryInsert == <<"i", "n", "s", "e", "r", "t", " ", "t">>

ConnectFailures == {"none", "list_branches", "connection_uri", "connect"}

\* the session switching between branches, the recorder driven by the session
SessionInputs ==
    [opened_on |-> {<<"main", 1>>, <<"main", NoId>>, <<"", NoId>>},
     autocommits |-> BOOLEAN,
     names |-> {"main", "dev", ""}, new_names |-> {"main", "dev"},
     contexts |-> {Context1},
     queries |-> {QuerySelect}, args |-> {<<>>}, prepares |-> {TRUE},
     kinds |-> {"READ"}, keys |-> {1}, starts |-> {0}, ends |-> {1},
     trace |-> TRUE]

\* the recorder driven by the benchmark, with varied metrics
RecorderInputs ==
    [opened_on |-> {<<"main", 1>>}, autocommits |-> {FALSE},
     names |-> {"main"}, new_names |-> {"dev"},
     contexts |-> {Context1},
     queries |-> {QuerySelect}, args |-> {<<>>}, prepares |-> {TRUE},
     kinds |-> {"READ", "INSERT", "UNSPECIFIED"}, keys |-> {1},
     starts |-> {0}, ends |-> {1},
     trace |-> TRUE]

\* every operation of the recorder and of the session together, one value for
\* each argument; the calls are not recorded in last
AllInputs ==
    [opened_on |-> {<<"main", 1>>}, autocommits |-> {FALSE},
     names |-> {"main"}, new_names |-> {"dev"},
     contexts |-> {Context1},
     queries |-> {QuerySelect}, args |-> {<<>>}, prepares |-> {TRUE},
     kinds |-> {"READ"}, keys |-> {1}, starts |-> {0}, ends |-> {1},
     trace |-> FALSE]

----------------------------------------------------------------------------
\* The state after construction: a fresh recorder, and a session opened on a
\* branch of a project that holds that branch and one the session has not seen.

InitBranches ==
    {[name |-> "main", id |-> 1, parent_id |-> NoId],
     [name |-> "dev", id |-> 2, parent_id |-> 1]}

\* The record of a call: the operation, its branch name (or, for
\* maybe_time_ops, its kind) and timed arguments, how it ended, the external
\* calls it made, and the names connect_branch has so far returned normally for.
Call(op, name, timed, err, calls, connected) ==
    [op |-> op, name |-> name, timed |-> timed, err |-> err, calls |-> calls,
     connected |-> connected]

InitOn(in) ==
    /\ rc = NewResultCollector
    /\ \E branch \in in.opened_on, autocommit \in in.autocommits :
           db = NewNeonToolSuite(branch[1], branch[2], autocommit)
    /\ neon = InitBranches
    /\ driver = 1
    /\ last = Call("__init__", "", FALSE, OK, <<>>, {})
    /\ statement = <<>>
    /\ kind = "None"

\* one call of an operation, with outcome out
Step(in, out, op, name, timed) ==
    /\ Len(out.rc.results) <= MaxRecords
    /\ Cardinality(out.neon) <= MaxBranches
    /\ rc' = out.rc
    /\ db' = out.db
    /\ neon' = out.neon
    /\ driver' = out.driver
    /\ last' = IF in.trace
               THEN Call(op, name, timed, out.err, out.calls,
                         IF op = "connect_branch" /\ out.err = OK
                         THEN last.connected \cup {name} ELSE last.connected)
               ELSE last
    /\ UNCHANGED <<statement, kind>>

----------------------------------------------------------------------------
\* The recorder's operations, called by the benchmark

Reset(in) ==
    Step(in, Outcome(reset(rc), db, neon, driver, OK, <<>>), "reset", "", FALSE)

SetContext(in) ==
    \E c \in in.contexts :
        Step(in, Outcome(set_context(rc, c), db, neon, driver, OK, <<>>),
             "set_context", "", FALSE)

\* a `with maybe_time_ops(timed, op_type)` block of the caller's own
MaybeTimeOps(in) ==
    \E timed \in BOOLEAN, op_type \in in.kinds, body_err \in {OK, "BodyError"},
       t0 \in in.starts, t1 \in in.ends :
        /\ t0 <= t1
        /\ LET scope == maybe_time_ops(rc, timed, op_type, body_err, t0, t1)
           IN  Step(in, Outcome(scope.rc, db, neon, driver, scope.err, <<>>),
                    "maybe_time_ops", op_type, timed)

RecordNumKeysTouched(in) ==
    \E n \in in.keys :
        Step(in, Outcome(record_num_keys_touched(rc, n), db, neon, driver, OK, <<>>),
             "record_num_keys_touched", "", FALSE)

RecordSqlQuery(in) ==
    \E q \in in.queries :
        Step(in, Outcome(record_sql_query(rc, q), db, neon, driver, OK, <<>>),
             "record_sql_query", "", FALSE)

FlushRecord(in) ==
    LET f == flush_record(rc)
    IN  Step(in, Outcome(f.rc, db, neon, driver, f.err, <<>>), "flush_record", "", FALSE)

WriteToParquet(in) ==
    LET w == write_to_parquet(rc)
    IN  Step(in, Outcome(w.rc, db, neon, driver, OK,
                         IF w.written THEN <<"write_table">> ELSE <<>>),
             "write_to_parquet", "", FALSE)

----------------------------------------------------------------------------
\* The session's operations

CloseConnection(in) ==
    Step(in, Outcome(rc, close_connection(db), neon,
                 IF db.conn.ref # "None" THEN LiveAfterClose(driver, db.conn) ELSE driver,
                 OK, IF db.conn.ref # "None" THEN <<"close">> ELSE <<>>),
         "close_connection", "", FALSE)

CreateBranch(in) ==
    \E branch_name \in in.new_names, parent_id \in {NoId, db.current_branch_id},
       api_ok \in BOOLEAN, t0 \in in.starts, t1 \in in.ends :
        /\ t0 <= t1
        /\ Step(in, create_branch(rc, db, neon, driver, branch_name, parent_id, api_ok, t0, t1),
                "create_branch", branch_name, TRUE)

ConnectBranch(in) ==
    \E branch_name \in in.names, timed \in BOOLEAN,
       fail \in ConnectFailures, listing \in Listings(neon),
       t0 \in in.starts, t1 \in in.ends :
        /\ t0 <= t1
        /\ Step(in, connect_branch(rc, db, neon, driver, branch_name, timed, fail, listing,
                               t0, t1),
                "connect_branch", branch_name, timed)

GetCurrentBranch(in) ==
    Step(in, get_current_branch(rc, db, neon, driver), "get_current_branch", "", FALSE)

CommitChanges(in) ==
    \E timed \in BOOLEAN, prepare_ok \in in.prepares, driver_ok \in BOOLEAN,
       t0 \in in.starts, t1 \in in.ends :
        /\ t0 <= t1
        /\ Step(in, commit_changes(rc, db, neon, driver, timed, prepare_ok, driver_ok,
                                   t0, t1),
                "commit_changes", "", timed)

ExecuteSql(in) ==
    \E query \in in.queries, args \in in.args, timed \in BOOLEAN, driver_ok \in BOOLEAN,
       t0 \in in.starts, t1 \in in.ends :
        /\ t0 <= t1
        /\ Step(in, execute_sql(rc, db, neon, driver, query, args, timed, driver_ok, t0, t1),
                "execute_sql", "", timed)

\* the session's public operations, and set_context, which a benchmark calls
\* before it measures
Next ==
    \/ SetContext(SessionInputs)
    \/ CloseConnection(SessionInputs)
    \/ CreateBranch(SessionInputs)
    \/ ConnectBranch(SessionInputs)
    \/ GetCurrentBranch(SessionInputs)
    \/ CommitChanges(SessionInputs)
    \/ ExecuteSql(SessionInputs)

Spec == InitOn(SessionInputs) /\ [][Next]_vars

\* the recorder's own operations
NextRecorder ==
    \/ Reset(RecorderInputs)
    \/ SetContext(RecorderInputs)
    \/ MaybeTimeOps(RecorderInputs)
    \/ RecordNumKeysTouched(RecorderInputs)
    \/ RecordSqlQuery(RecorderInputs)
    \/ FlushRecord(RecorderInputs)
    \/ WriteToParquet(RecorderInputs)

SpecRecorder == InitOn(RecorderInputs) /\ [][NextRecorder]_vars

\* every operation of the recorder and of the session
NextAll ==
    \/ Reset(AllInputs)
    \/ SetContext(AllInputs)
    \/ MaybeTimeOps(AllInputs)
    \/ RecordNumKeysTouched(AllInputs)
    \/ RecordSqlQuery(AllInputs)
    \/ FlushRecord(AllInputs)
    \/ WriteToParquet(AllInputs)
    \/ CloseConnection(AllInputs)
    \/ CreateBranch(AllInputs)
    \/ ConnectBranch(AllInputs)
    \/ GetCurrentBranch(AllInputs)
    \/ CommitChanges(AllInputs)
    \/ ExecuteSql(AllInputs)

SpecAll == InitOn(AllInputs) /\ [][NextAll]_vars

----------------------------------------------------------------------------
\* The classifier called on its own.  A statement is a sequence of tokens,
\* its text the tokens separated by single spaces.

\* keywords, in the cases a caller writes them
TokSelect == <<"s", "e", "l", "e", "c", "t">>

TokInsert == <<"I", "N", "S", "E", "R", "T">>

TokUpdate == <<"U", "p", "d", "a", "t", "e">>

TokDelete == <<"d", "e", "l", "e", "t", "e">>

TokWith == <<"w", "i", "t", "h">>

\* a CTE name, another leading keyword, and a name that starts like a keyword
TokName == <<"c">>

TokVacuum == <<"v", "a", "c", "u", "u", "m">>

TokUpdates == <<"u", "p", "d", "a", "t", "e", "s">>

\* a string literal whose content is a backslash, written doubled
TokBackslashes == <<"'", "\\", "\\", "'">>

\* a parenthesised CTE body holding a string literal of plain letters
TokBody == <<"(", "'", "x", "'", ")">>

Tokens ==
    {TokSelect, TokInsert, TokUpdate, TokDelete, TokWith,
     TokName, TokVacuum, TokUpdates, TokBackslashes, TokBody}

Statements == UNION {[1 .. n -> Tokens] : n \in 0 .. MaxTokens}

\* " ".join(tokens)
RECURSIVE Text(_)
Text(tokens) ==
    IF tokens = <<>> THEN <<>>
    ELSE IF Len(tokens) = 1 THEN Head(tokens)
    ELSE Head(tokens) \o <<" ">> \o Text(Tail(tokens))

InitClassifier ==
    /\ rc = NewResultCollector
    /\ db = NewNeonToolSuite("main", 1, FALSE)
    /\ neon = InitBranches
    /\ driver = 1
    /\ last = Call("__init__", "", FALSE, OK, <<>>, {})
    /\ statement \in Statements
    /\ kind = "None"

Classify ==
    /\ kind = "None"
    /\ kind' = GetOpTypeFromSQL(Text(statement))
    /\ UNCHANGED <<rc, db, neon, driver, last, statement>>

SpecClassifier == InitClassifier /\ [][Classify]_vars

----------------------------------------------------------------------------
\* Properties

IsPrefix(a, b) == Len(a) <= Len(b) /\ SubSeq(b, 1, Len(a)) = a

Count(x, seq) == Cardinality({i \in DOMAIN seq : seq[i] = x})

\* the slot of current metrics holds its defaults
SlotIsDefault(r) ==
    /\ r.current_op_type = "UNSPECIFIED"
    /\ r.current_latency = 0
    /\ r.num_keys_touched = 0
    /\ r.sql_query = <<>>

\* C1: the k-th record of the sequence (k counted from 0) carries
\* iteration_number k, and iteration_counter equals the number of records.
\* reset() empties the sequence and zeroes the counter, so the numbering holds
\* of the sequence as it stands in every state.
C1_Numbering ==
    /\ rc.iteration_counter = Len(rc.results)
    /\ \A k \in DOMAIN rc.results : rc.results[k].iteration_number = k - 1

\* two records have been flushed: the second carries number 1
C1_Witness ==
    /\ Len(rc.results) = 2
    /\ rc.results[2].iteration_number = 1
    /\ rc.iteration_counter = 2

\* C2: the record sequence is append-only: every step that is not a reset()
\* leaves the sequence it found as a prefix of the sequence it leaves, every
\* existing record unchanged and in place.
C2_AppendOnly ==
    [][Reset(AllInputs) \/ IsPrefix(rc.results, rc'.results)]_vars

\* a record was appended to a sequence that already held one
C2_Witness ==
    /\ Len(rc.results) = 2
    /\ rc.results[1].iteration_number = 0

\* the errors the body of a session operation's scope can raise
BodyErrors == {"DriverError", "ExternalAPIError", "KeyError", "BranchNotFound"}

\* the recorder keeps its records, its counter and its latency sample
NothingRecorded(before, after) ==
    /\ after.results = before.results
    /\ after.iteration_counter = before.iteration_counter
    /\ after.current_latency = before.current_latency

\* C3: when the body of a timed operation raises (the driver fails in
\* execute_sql or commit_changes, the control plane refuses create_branch, any
\* step of connect_branch's body fails), the call fails, no latency sample is
\* stored, and iteration_counter and the records are as before the call.
C3_FailureIsolation ==
    \A t0 \in SessionInputs.starts, t1 \in SessionInputs.ends :
        /\ \A query \in SessionInputs.queries, args \in SessionInputs.args :
               LET out == execute_sql(rc, db, neon, driver, query, args, TRUE, FALSE, t0, t1)
               IN  out.err # OK /\ NothingRecorded(rc, out.rc)
        /\ LET out == commit_changes(rc, db, neon, driver, TRUE, TRUE, FALSE, t0, t1)
           IN  out.err # OK /\ NothingRecorded(rc, out.rc)
        /\ \A branch_name \in SessionInputs.new_names, parent_id \in {NoId, db.current_branch_id} :
               LET out == create_branch(rc, db, neon, driver, branch_name, parent_id,
                                        FALSE, t0, t1)
               IN  out.err # OK /\ NothingRecorded(rc, out.rc)
        /\ \A branch_name \in SessionInputs.names, fail \in ConnectFailures,
              listing \in Listings(neon) :
               LET body == connect_branch_impl(rc, db, neon, driver, branch_name, fail, listing)
                   out == connect_branch(rc, db, neon, driver, branch_name, TRUE, fail,
                                         listing, t0, t1)
               IN  (require_connection(db) /\ body.err # OK) =>
                       (out.err = body.err /\ NothingRecorded(rc, out.rc))

\* a timed execute_sql has just failed in the driver, on a live connection
\* and a recorder that holds a record
C3_Witness ==
    /\ last.op = "execute_sql" /\ last.timed /\ last.err = "DriverError"
    /\ ~db.conn.closed
    /\ Len(rc.results) > 0

\* C4: when the slot holds a kind other than UNSPECIFIED, left by a completed
\* timed scope that no flush has followed, a timed scope of any other kind
\* whose body runs to its end raises the operation-kind-conflict error.
C4_ConflictDetected ==
    \A op_type \in OpType, t0 \in RecorderInputs.starts, t1 \in RecorderInputs.ends :
        (rc.current_op_type # "UNSPECIFIED" /\ rc.current_op_type # op_type) =>
            maybe_time_ops(rc, TRUE, op_type, OK, t0, t1).err = "OperationKindConflict"

\* a timed INSERT scope has just raised the conflict on a slot holding READ
C4_Witness ==
    /\ last.op = "maybe_time_ops" /\ last.name = "INSERT" /\ last.timed
    /\ last.err = "OperationKindConflict"
    /\ rc.current_op_type = "READ"

\* C5: every create_branch call whose control-plane creation succeeds returns
\* with exactly one new record appended, of kind BRANCH_CREATE, and with the
\* slot back at its defaults.
C5_CreateAlwaysFlushed ==
    [][(last'.op = "create_branch" /\ neon' # neon) =>
          /\ last'.err = OK
          /\ Len(rc'.results) = Len(rc.results) + 1
          /\ rc'.results[Len(rc'.results)].op_type = "BRANCH_CREATE"
          /\ SlotIsDefault(rc')]_vars

\* C6: after one connect_branch(n) that returned normally, a later
\* connect_branch(n) does not call the control plane's URI lookup.
C6_CachedUriReused ==
    [][(last'.op = "connect_branch" /\ last'.name \in last.connected) =>
          Count("connection_uri", last'.calls) = 0]_vars

\* C7: connect_branch(n), on a connected session, for a name n with no entry
\* in the branch cache calls the control plane's branch listing exactly once.
C7_UncachedNameListsOnce ==
    [][(last'.op = "connect_branch" /\ require_connection(db)
          /\ last'.name \notin DOMAIN db.all_branches) =>
          Count("list_branches", last'.calls) = 1]_vars

\* the name is in the listing of the control plane
Listed(cp, name) == \E b \in cp : b.name = name

\* C8: connect_branch(n) fails with BranchNotFound exactly when n is absent
\* from the cache and from the listing (and no external call failed first),
\* and then the connection has not been closed and the current branch is the
\* same.
C8_BranchNotFoundExactly ==
    [][(last'.op = "connect_branch" /\ require_connection(db)) =>
          /\ (last'.err = "BranchNotFound") =>
                 /\ last'.name \notin DOMAIN db.all_branches
                 /\ ~Listed(neon, last'.name)
                 /\ db'.conn = db.conn
                 /\ db'.current_branch_name = db.current_branch_name
                 /\ db'.current_branch_id = db.current_branch_id
          /\ (/\ last'.name \notin DOMAIN db.all_branches
              /\ ~Listed(neon, last'.name)
              /\ last'.err \notin {"ExternalAPIError", "DriverError"}) =>
                 last'.err = "BranchNotFound"]_vars

\* C9: a connection URI cached for a branch id stays cached for that id, with
\* the same value, whatever the session does next.
C9_CachedUriKept ==
    [][\A n \in DOMAIN db.all_branches :
          Truthy(db.all_branches[n].uri) =>
              \E m \in DOMAIN db'.all_branches :
                  /\ db'.all_branches[m].id = db.all_branches[n].id
                  /\ db'.all_branches[m].uri = db.all_branches[n].uri]_vars

\* C10: at most one connection opened for the session is live, and a
\* connect_branch that opens a connection has closed the old one before.
C10_OneLiveConnection ==
    /\ driver <= 1
    /\ last.op = "connect_branch" =>
           \A i \in DOMAIN last.calls :
               last.calls[i] = "connect" =>
                   \E j \in 1 .. (i - 1) : last.calls[j] = "close"

\* connect_branch has just swapped the connection: the old one is closed, the
\* new one is the only live one
C10_Witness ==
    /\ last.op = "connect_branch" /\ last.err = OK
    /\ Count("close", last.calls) = 1 /\ Count("connect", last.calls) = 1
    /\ driver = 1
    /\ ~db.conn.closed

\* the session holds a connection object that has not been closed
Live(s) == s.conn.ref # "None" /\ ~s.conn.closed

\* C11: whenever the session holds a live connection, that connection was
\* opened against the URI of the branch with id current_branch_id.
C11_LiveConnectionOnCurrentBranch ==
    Live(db) => db.conn.uri = UriOf(db.current_branch_id)

\* connect_branch has just moved the session to a branch created after the
\* session was opened
C11_Witness ==
    /\ last.op = "connect_branch" /\ last.err = OK
    /\ Live(db)
    /\ db.current_branch_id = 3
    /\ db.conn.uri = UriOf(3)

\* C11 as stated: in every reachable state the session's connection is live
\* and was opened against the URI of the branch with id current_branch_id.
C11_AlwaysLiveOnCurrentBranch ==
    Live(db) /\ db.conn.uri = UriOf(db.current_branch_id)

\* the call failed at once: NotConnected, no external call, the recorder as it was
FailedFast(out) ==
    /\ out.err = "NotConnected"
    /\ out.calls = <<>>
    /\ out.rc = rc

\* C12: in every state in which the session has no live connection, each of
\* create_branch, connect_branch, get_current_branch, commit_changes and
\* execute_sql fails with NotConnected before any control-plane call, driver
\* call or change of the recorder.
C12_NotConnectedFailFast ==
    ~Live(db) =>
        \A t0 \in SessionInputs.starts, t1 \in SessionInputs.ends, timed \in BOOLEAN :
            /\ \A branch_name \in SessionInputs.new_names :
                   FailedFast(create_branch(rc, db, neon, driver, branch_name, NoId,
                                            TRUE, t0, t1))
            /\ \A branch_name \in SessionInputs.names, listing \in Listings(neon) :
                   FailedFast(connect_branch(rc, db, neon, driver, branch_name, timed,
                                             "none", listing, t0, t1))
            /\ FailedFast(get_current_branch(rc, db, neon, driver))
            /\ FailedFast(commit_changes(rc, db, neon, driver, timed, TRUE, TRUE, t0, t1))
            /\ \A query \in SessionInputs.queries, args \in SessionInputs.args :
                   FailedFast(execute_sql(rc, db, neon, driver, query, args, timed,
                                          TRUE, t0, t1))

\* C13: a failed execute_sql, commit_changes or connect_branch call leaves the
\* branch cache exactly as it was before the call.
C13_FailedCallKeepsCache ==
    [][(last'.op \in {"execute_sql", "commit_changes", "connect_branch"}
          /\ last'.err # OK) =>
          db'.all_branches = db.all_branches]_vars

\* in the calls, the connection is closed before the new one is opened
ClosedBeforeOpen(calls) ==
    \A i \in DOMAIN calls :
        calls[i] = "connect" => \E j \in 1 .. (i - 1) : calls[j] = "close"

\* C14: when opening the replacement connection fails inside connect_branch,
\* the old connection has been closed before, the session is left with no live
\* connection, and no operation other than a connect_branch the caller makes
\* opens a connection again.
C14_FailedSwapDisconnects ==
    [][/\ (/\ last'.op = "connect_branch"
           /\ last'.err = "DriverError"
           /\ Count("connect", last'.calls) = 1) =>
              /\ ClosedBeforeOpen(last'.calls)
              /\ ~Live(db')
              /\ driver' = 0
       /\ (~Live(db) /\ last'.op # "connect_branch") =>
              /\ ~Live(db')
              /\ driver' = 0]_vars

\* an execute_sql has run on a session that lost its connection in a failed
\* swap: the closed connection object is still held, nothing is live
C14_Witness ==
    /\ last.op = "execute_sql"
    /\ db.conn.ref = "pgconn" /\ db.conn.closed
    /\ driver = 0

\* the record carries the context c, the count n, the query q and the run id
Carries(rec, c, n, q) ==
    /\ rec.table_name = c.table_name
    /\ rec.table_schema = c.table_schema
    /\ rec.initial_db_size = c.initial_db_size
    /\ rec.random_seed = c.seed
    /\ rec.num_keys_touched = n
    /\ rec.sql_query = q
    /\ rec.run_id = RunId

\* the last record of the recorder
LastRecord(r) == r.results[Len(r.results)]

\* C15: round trip.  From every state, the values written through
\* set_context, record_num_keys_touched and record_sql_query, in either
\* order, are the values of the one record the next flush_record appends,
\* together with the recorder's run_id.
C15_RoundTrip ==
    \A c \in {Context1, Context2}, n \in {0, 1, 2},
       q \in {QuerySelect, QueryInsert, <<>>} :
        LET f == flush_record(
                     record_sql_query(
                         record_num_keys_touched(set_context(rc, c), n), q))
            g == flush_record(
                     set_context(
                         record_num_keys_touched(record_sql_query(rc, q), n), c))
        IN  /\ f.err = OK /\ g.err = OK
            /\ Len(f.rc.results) = Len(rc.results) + 1
            /\ Carries(LastRecord(f.rc), c, n, q)
            /\ LastRecord(g.rc) = LastRecord(f.rc)

\* a flush has just appended a record with the context, the count and the
\* query written before it
C15_Witness ==
    /\ last.op = "flush_record" /\ last.err = OK
    /\ Len(rc.results) > 0
    /\ Carries(LastRecord(rc), Context1, 1, QuerySelect)

\* the context of the recorder: what set_context writes
ContextOf(r) ==
    [table_name |-> r.current_table_name,
     table_schema |-> r.current_table_schema,
     initial_db_size |-> r.initial_db_size,
     seed |-> r.seed]

\* the context a record carries
ContextIn(rec) ==
    [table_name |-> rec.table_name,
     table_schema |-> rec.table_schema,
     initial_db_size |-> rec.initial_db_size,
     seed |-> rec.random_seed]

\* C16: every step that flushes a record (flush_record itself, or a session
\* operation that ends with it) leaves the slot at its defaults and the
\* context as it was; the record carries that context, and so does the record
\* a flush right after it would append.
C16_FlushResetsOnlyMetrics ==
    [][(Len(rc'.results) = Len(rc.results) + 1) =>
          /\ SlotIsDefault(rc')
          /\ ContextOf(rc') = ContextOf(rc)
          /\ ContextIn(LastRecord(rc')) = ContextOf(rc)
          /\ LET next == flush_record(rc')
             IN  /\ next.err = OK
                 /\ ContextIn(LastRecord(next.rc)) = ContextIn(LastRecord(rc'))]_vars

\* two records flushed one after the other carry the context set before the
\* first, which the recorder still holds, and the slot is at its defaults
C16_Witness ==
    /\ Len(rc.results) = 2
    /\ ContextIn(rc.results[1]) = Context1
    /\ ContextIn(rc.results[2]) = Context1
    /\ ContextOf(rc) = Context1
    /\ SlotIsDefault(rc)

\* C17: a connect_branch that returns normally appends exactly one record, of
\* kind BRANCH_CONNECT, when it is timed, and leaves the records, the counter
\* and the slot as they were when it is not.
C17_ConnectRecordsIffTimed ==
    [][(last'.op = "connect_branch" /\ last'.err = OK) =>
          IF last'.timed
          THEN /\ Len(rc'.results) = Len(rc.results) + 1
               /\ IsPrefix(rc.results, rc'.results)
               /\ LastRecord(rc').op_type = "BRANCH_CONNECT"
               /\ rc'.iteration_counter = rc.iteration_counter + 1
          ELSE rc' = rc]_vars

\* a timed connect_branch has just returned normally and its record is the
\* last one
C17_Witness ==
    /\ last.op = "connect_branch" /\ last.timed /\ last.err = OK
    /\ Len(rc.results) > 0
    /\ LastRecord(rc).op_type = "BRANCH_CONNECT"
    /\ LastRecord(rc).latency = 1

\* a statement that is none of the kinds the classifier knows
QueryVacuum == <<"V", "A", "C", "U", "U", "M">>

\* f" -- args: "
ArgsMark == <<" ", "-", "-", " ", "a", "r", "g", "s", ":", " ">>

\* queries with the kind the classifier gives them, and argument tuples with
\* the text str() renders them as
KindOfQuery ==
    {<<QuerySelect, "READ">>, <<QueryInsert, "INSERT">>, <<QueryVacuum, "UNSPECIFIED">>}

TextOfArgs == {<<<<>>, <<>>>>, <<<<"7">>, ArgsMark \o <<"(", "7", ",", ")">>>>}

\* C18: wherever the session holds a live connection, an execute_sql with
\* timed=True that returns normally has appended exactly one record, whose
\* kind is the classifier's for the query and whose sql_query is the query
\* text followed by the rendered arguments; with timed=False it returns
\* normally with the same rows and the recorder as it was.
C18_ExecuteSqlRecord ==
    Live(db) =>
        \A qk \in KindOfQuery, at \in TextOfArgs :
            LET t == execute_sql(rc, db, neon, driver, qk[1], at[1], TRUE, TRUE, 0, 1)
                u == execute_sql(rc, db, neon, driver, qk[1], at[1], FALSE, TRUE, 0, 1)
            IN  /\ u.err = OK
                /\ u.rc = rc
                /\ (t.err = OK) =>
                       /\ Len(t.rc.results) = Len(rc.results) + 1
                       /\ IsPrefix(rc.results, t.rc.results)
                       /\ t.rc.iteration_counter = rc.iteration_counter + 1
                       /\ LastRecord(t.rc).op_type = qk[2]
                       /\ LastRecord(t.rc).sql_query = qk[1] \o at[2]
                       /\ t.res = u.res

\* a timed execute_sql of a SELECT has just returned normally, and its record
\* is the last one
C18_Witness ==
    /\ last.op = "execute_sql" /\ last.timed /\ last.err = OK
    /\ Len(rc.results) > 0
    /\ LastRecord(rc).op_type = "READ"
    /\ LastRecord(rc).sql_query = QuerySelect

\* C19: on a connected session get_current_branch returns
\* (current_branch_name, current_branch_id), calls neither the control plane
\* nor the driver, and leaves the session, its cache, the recorder, the
\* project and the connections as they were.
C19_GetCurrentBranchPure ==
    Live(db) =>
        LET out == get_current_branch(rc, db, neon, driver)
        IN  /\ out.err = OK
            /\ out.res = <<db.current_branch_name, db.current_branch_id>>
            /\ out.calls = <<>>
            /\ out.db = db
            /\ out.rc = rc
            /\ out.neon = neon
            /\ out.driver = driver

\* get_current_branch has just returned on a session that moved to a branch
\* created after it was opened, and that holds records
C19_Witness ==
    /\ last.op = "get_current_branch" /\ last.err = OK /\ last.calls = <<>>
    /\ Live(db)
    /\ db.current_branch_id = 3
    /\ Len(rc.results) > 0

\* two timed scopes of kind op_type, one after the other, whose bodies run to
\* their end, on recorder r
TwoScopes(r, op_type, t0, t1) ==
    LET first == maybe_time_ops(r, TRUE, op_type, OK, t0, t1)
    IN  IF first.err # OK THEN first
        ELSE maybe_time_ops(first.rc, TRUE, op_type, OK, t0, t1)

\* C20: on a slot that is fresh or holds kind K, successive timed scopes of
\* kind K raise no conflict, and the flush_record that follows them appends
\* exactly one record, of kind K.
C20_SameKindReuse ==
    \A op_type \in OpType, t0 \in RecorderInputs.starts, t1 \in RecorderInputs.ends :
        (rc.current_op_type \in {"UNSPECIFIED", op_type}) =>
            LET scopes == TwoScopes(rc, op_type, t0, t1)
                f == flush_record(scopes.rc)
            IN  /\ scopes.err = OK
                /\ scopes.rc.current_op_type = op_type
                /\ scopes.rc.results = rc.results
                /\ f.err = OK
                /\ Len(f.rc.results) = Len(rc.results) + 1
                /\ LastRecord(f.rc).op_type = op_type

\* the readings of time.perf_counter() the scopes of C21 take
ClockReadings == 0 .. 2

\* a timed scope of kind op_type whose body runs to its end, then
\* flush_record, on recorder r
ScopeThenFlush(r, op_type, t0, t1) ==
    LET scope == maybe_time_ops(r, TRUE, op_type, OK, t0, t1)
    IN  IF scope.err # OK THEN scope ELSE flush_record(scope.rc)

\* C21: on a slot at its defaults, two timed scopes of one kind in a row,
\* each followed by flush_record, append two records with iteration numbers
\* n and n + 1, each with the latency end minus start of its own scope, which
\* is not negative.
C21_IndependentLatencies ==
    \A op_type \in OpType, t0 \in ClockReadings, t1 \in ClockReadings,
       u0 \in ClockReadings, u1 \in ClockReadings :
        (SlotIsDefault(rc) /\ t0 <= t1 /\ t1 <= u0 /\ u0 <= u1) =>
            LET first == ScopeThenFlush(rc, op_type, t0, t1)
                second == ScopeThenFlush(first.rc, op_type, u0, u1)
                n == Len(rc.results)
            IN  /\ first.err = OK /\ second.err = OK
                /\ Len(second.rc.results) = n + 2
                /\ IsPrefix(rc.results, second.rc.results)
                /\ second.rc.results[n + 1].iteration_number = rc.iteration_counter
                /\ second.rc.results[n + 2].iteration_number = rc.iteration_counter + 1
                /\ second.rc.results[n + 1].latency = t1 - t0
                /\ second.rc.results[n + 2].latency = u1 - u0
                /\ second.rc.results[n + 1].latency >= 0
                /\ second.rc.results[n + 2].latency >= 0
                /\ second.rc.results[n + 1].op_type = op_type
                /\ second.rc.results[n + 2].op_type = op_type

CanChangeConnection ==
    \/ close_connection(db).conn # db.conn
    \/ \E branch_name \in SessionInputs.names, timed \in BOOLEAN,
          fail \in ConnectFailures, listing \in Listings(neon) :
           connect_branch(rc, db, neon, driver, branch_name, timed, fail, listing,
                          0, 1).db.conn # db.conn
    \/ \E branch_name \in SessionInputs.new_names, api_ok \in BOOLEAN :
           create_branch(rc, db, neon, driver, branch_name, NoId, api_ok,
                         0, 1).db.conn # db.conn
    \/ \E timed \in BOOLEAN, driver_ok \in BOOLEAN :
           \/ commit_changes(rc, db, neon, driver, timed, TRUE, driver_ok, 0, 1).db.conn # db.conn
           \/ \E query \in SessionInputs.queries, args \in SessionInputs.args :
                  execute_sql(rc, db, neon, driver, query, args, timed, driver_ok,
                              0, 1).db.conn # db.conn
    \/ get_current_branch(rc, db, neon, driver).db.conn # db.conn

\* C23: the session has no terminal state: from every reachable state some
\* call of a public operation changes the connection state.
C23_NoTerminalState == CanChangeConnection

----------------------------------------------------------------------------
\* Properties of the classifier

\* terminated comments holding keyword-like text and a semicolon
Comments ==
    {<<"-", "-", " ", "I", "N", "S", "E", "R", "T", "\n">>,
     <<"/", "*", " ", "d", "e", "l", "e", "t", "e", " ", "*", "/">>,
     <<"/", "*", ";", "*", "/">>}

\* whether text ends inside a quoted literal: a quote opens a literal, the
\* same quote closes it
RECURSIVE EndsInLiteral(_, _)
EndsInLiteral(text, quote) ==
    IF text = <<>> THEN quote # ""
    ELSE IF quote = "" /\ Head(text) \in {"'", "\""}
         THEN EndsInLiteral(Tail(text), Head(text))
    ELSE IF quote # "" /\ Head(text) = quote THEN EndsInLiteral(Tail(text), "")
    ELSE EndsInLiteral(Tail(text), quote)

\* the text of tokens with comment c placed before token gap + 1
Commented(tokens, gap, c) ==
    IF gap = 0 THEN c \o Text(tokens)
    ELSE Text(SubSeq(tokens, 1, gap)) \o <<" ">> \o c \o <<" ">>
         \o Text(SubSeq(tokens, gap + 1, Len(tokens)))

\* C24: a terminated comment placed before a statement, or between two of
\* its tokens outside string literals, leaves the kind the classifier
\* returned for the statement unchanged.
C24_CommentsNeverAffect ==
    kind # "None" =>
        \A gap \in 0 .. Len(statement) - 1, c \in Comments :
            ~EndsInLiteral(Text(SubSeq(statement, 1, gap)), "")
                => GetOpTypeFromSQL(Commented(statement, gap, c)) = kind

\* the CTE body TokBody with the content of its literal replaced by a
\* semicolon or a comment marker
MarkedBodies ==
    {<<"(", "'", ";", "'", ")">>,
     <<"(", "'", "-", "-", "'", ")">>,
     <<"(", "'", "/", "*", "'", ")">>,
     <<"(", "\"", ";", "\"", ")">>}

\* C25: a statement whose string literal holds a semicolon or a comment
\* marker gets the kind the classifier returned for the same statement with
\* plain letters in the literal, CTE bodies included.
C25_LiteralsNeverTruncate ==
    kind # "None" =>
        \A i \in DOMAIN statement, body \in MarkedBodies :
            statement[i] = TokBody
                => GetOpTypeFromSQL(Text([statement EXCEPT ![i] = body])) = kind

MainClauseKeywords == {KwSELECT, KwINSERT, KwUPDATE, KwDELETE}

\* the kind of a main-clause keyword
KindOfKeyword(keyword) ==
    IF keyword = KwSELECT THEN "READ"
    ELSE IF keyword = KwINSERT THEN "INSERT"
    ELSE "UPDATE"

\* The kind of the first token after the leading WITH that is a main-clause
\* keyword as a whole word (READ when there is none).  Every token closes the
\* parentheses it opens, so all of them stand at depth 0.
RECURSIVE KindOfMainClause(_)
KindOfMainClause(tokens) ==
    IF tokens = <<>> THEN "READ"
    ELSE IF Upper(Head(tokens)) \in MainClauseKeywords
         THEN KindOfKeyword(Upper(Head(tokens)))
    ELSE KindOfMainClause(Tail(tokens))

\* C26: a statement that starts with WITH gets the kind of its first
\* main-clause keyword token at depth 0, whatever the CTE names and bodies.
C26_CteUnwrap ==
    (/\ kind # "None" /\ statement # <<>> /\ Upper(Head(statement)) = KwWITH
     /\ \E i \in 2 .. Len(statement) : Upper(statement[i]) \in MainClauseKeywords)
        => kind = KindOfMainClause(Tail(statement))

\* what may follow the tokens of a first statement: nothing, or a comment,
\* terminated or left open
ClosedTrailers ==
    {<<>>,
     <<" ", "-", "-", " ", "x", "\n">>,
     <<" ", "/", "*", " ", "x", " ", "*", "/">>}

OpenTrailers ==
    {<<" ", "-", "-", " ", "x">>,
     <<" ", "/", "*", " ", "x">>}

\* second statements of a batch
SecondStatements ==
    {<<"s", "e", "l", "e", "c", "t", " ", "1">>,
     <<"D", "R", "O", "P", " ", "T", "A", "B", "L", "E", " ", "t", ";">>,
     <<"\n", "i", "n", "s", "e", "r", "t", " ", "t">>,
     <<"*", "/", " ", "d", "e", "l", "e", "t", "e", " ", "t">>}

HasSemicolon(text) == \E i \in DOMAIN text : text[i] = ";"

\* s1; s2
Batch(s1, s2) == s1 \o <<";", " ">> \o s2

\* the batches of first statements ending in one of trailers get the kind of
\* their first statement
FirstStatementDecides(trailers) ==
    kind # "None" =>
        \A trailer \in trailers, s2 \in SecondStatements :
            LET s1 == Text(statement) \o trailer
            IN  (s1 # <<>> /\ ~HasSemicolon(s1))
                    => GetOpTypeFromSQL(Batch(s1, s2)) = GetOpTypeFromSQL(s1)

\* C27 (as amended): a batch s1; s2 gets the kind of s1 when s1 is not
\* empty, holds no semicolon and leaves no comment open.
C27_FirstStatementDecides == FirstStatementDecides(ClosedTrailers)

\* an INSERT followed by a SELECT has been classified, and the batch is an INSERT
C27_Witness ==
    /\ kind = "INSERT"
    /\ statement = <<TokInsert, TokName>>
    /\ GetOpTypeFromSQL(Batch(Text(statement), <<"s", "e", "l", "e", "c", "t", " ", "1">>))
           = "INSERT"

\* C27 (as stated): a batch s1; s2 gets the kind of s1 whenever s1 is not
\* empty and holds no semicolon.
C27_AnyFirstStatementDecides ==
    FirstStatementDecides(ClosedTrailers \cup OpenTrailers)

\* inputs without a token
BlankInputs == {<<>>, <<" ">>, <<" ", "\n", "\t", " ">>}

\* the first token of the statement in upper case, <<>> when there is none
LeadingKeyword == IF statement = <<>> THEN <<>> ELSE Upper(Head(statement))

\* C28: the classifier returns a kind for every input, READ, INSERT, UPDATE
\* or UNSPECIFIED and no other: READ for a leading SELECT, and for a leading
\* WITH that no main clause follows, INSERT for INSERT, UPDATE for UPDATE
\* and DELETE, UNSPECIFIED for every other input, in whatever case the
\* statement is written.
C28_TotalMapping ==
    /\ \A blank \in BlankInputs : GetOpTypeFromSQL(blank) = "UNSPECIFIED"
    /\ kind # "None" =>
        /\ kind \in {"READ", "INSERT", "UPDATE", "UNSPECIFIED"}
        /\ LeadingKeyword = KwSELECT => kind = "READ"
        /\ LeadingKeyword = KwINSERT => kind = "INSERT"
        /\ LeadingKeyword \in {KwUPDATE, KwDELETE} => kind = "UPDATE"
        /\ (/\ LeadingKeyword = KwWITH
            /\ \A i \in 2 .. Len(statement) : ~StartsMainStatement(Upper(statement[i])))
               => kind = "READ"
        /\ LeadingKeyword \notin {KwSELECT, KwINSERT, KwUPDATE, KwDELETE, KwWITH}
               => kind = "UNSPECIFIED"
        /\ GetOpTypeFromSQL(Upper(Text(statement))) = kind

\* a DELETE written in lower case has been classified as an UPDATE
C28_Witness ==
    /\ statement = <<TokDelete, TokName>>
    /\ kind = "UPDATE"

----------------------------------------------------------------------------
\* Properties of commit_changes and of the autocommit flag

\* C29: in commit_changes on a connected session the hook runs first and the
\* driver commit after it, inside the one scope; a call that returns normally
\* appends one COMMIT record carrying the scope's latency when timed and
\* leaves the recorder alone when not; when the hook fails the driver commit
\* is not called, nothing is appended and the hook's error reaches the caller.
C29_CommitChanges ==
    require_connection(db) =>
        \A timed \in BOOLEAN, prepare_ok \in BOOLEAN, driver_ok \in BOOLEAN,
           t0 \in ClockReadings, t1 \in ClockReadings :
            t0 <= t1 =>
                LET out == commit_changes(rc, db, neon, driver, timed, prepare_ok,
                                          driver_ok, t0, t1)
                IN  /\ out.calls \in {<<"_prepare_commit">>, <<"_prepare_commit", "commit">>}
                    /\ (out.err = OK /\ timed) =>
                           /\ out.calls = <<"_prepare_commit", "commit">>
                           /\ Len(out.rc.results) = Len(rc.results) + 1
                           /\ SubSeq(out.rc.results, 1, Len(rc.results)) = rc.results
                           /\ LastRecord(out.rc).op_type = "COMMIT"
                           /\ LastRecord(out.rc).latency = t1 - t0
                    /\ (out.err = OK /\ ~timed) =>
                           /\ out.calls = <<"_prepare_commit", "commit">>
                           /\ out.rc = rc
                    /\ ~prepare_ok =>
                           /\ out.calls = <<"_prepare_commit">>
                           /\ out.err = "PrepareError"
                           /\ out.rc = rc

\* a timed commit_changes has returned normally and its record is the last one
C29_Witness ==
    /\ last.op = "commit_changes" /\ last.timed /\ last.err = OK
    /\ last.calls = <<"_prepare_commit", "commit">>
    /\ rc.results # <<>>
    /\ LastRecord(rc).op_type = "COMMIT"

\* C30: no operation changes the session's autocommit flag, and the
\* connection the session holds, after a connect_branch that returned normally
\* as after construction, is in autocommit mode exactly when the flag is set.
C30_AutocommitFixed ==
    [][/\ db'.autocommit = db.autocommit
       /\ (last'.op = "connect_branch" /\ last'.err = OK)
              => (db'.conn.ref = "pgconn" /\ ~db'.conn.closed)
       /\ require_connection(db') => (db'.conn.autocommit <=> db'.autocommit)]_vars

\* an autocommit session has connected to another branch, and the connection
\* it opened was put in autocommit mode
C30_Witness ==
    /\ last.op = "connect_branch" /\ last.err = OK
    /\ db.autocommit /\ db.conn.autocommit
    /\ db.current_branch_name = "dev"
    /\ last.calls # <<>> /\ last.calls[Len(last.calls)] = "set_isolation_level"

----------------------------------------------------------------------------
\* Properties of the branch cache and of the branch identity

\* C31: a create_branch that returns normally stores the id the control plane
\* returned under the name, with an unresolved URI, and leaves the connection,
\* the current branch and every other cache entry alone; a create_branch that
\* raises writes no cache entry.
C31_CreateBranchFrame ==
    \A branch_name \in SessionInputs.new_names, parent_id \in {NoId, db.current_branch_id},
       api_ok \in BOOLEAN :
        LET out == create_branch(rc, db, neon, driver, branch_name, parent_id, api_ok, 0, 1)
        IN  /\ out.err = OK =>
                /\ branch_name \in DOMAIN out.db.all_branches
                /\ out.db.all_branches[branch_name] = [id |-> FreshId(neon), uri |-> EmptyUri]
                /\ \A n \in DOMAIN db.all_branches \ {branch_name} :
                       /\ n \in DOMAIN out.db.all_branches
                       /\ out.db.all_branches[n] = db.all_branches[n]
                /\ DOMAIN out.db.all_branches = DOMAIN db.all_branches \cup {branch_name}
                /\ out.db.conn = db.conn
                /\ out.db.current_branch_name = db.current_branch_name
                /\ out.db.current_branch_id = db.current_branch_id
                /\ out.db.autocommit = db.autocommit
            /\ out.err # OK => out.db.all_branches = db.all_branches

\* C32: after a connect_branch(n) that returned normally the session is on n,
\* its current_branch_id is the id the cache holds for n, and its connection
\* is open on the URI of that id, which is the URI the cache holds for n.
C32_AddressedById ==
    [][(last'.op = "connect_branch" /\ last'.err = OK) =>
           /\ db'.current_branch_name = last'.name
           /\ last'.name \in DOMAIN db'.all_branches
           /\ db'.current_branch_id = db'.all_branches[last'.name].id
           /\ db'.conn.ref = "pgconn" /\ ~db'.conn.closed
           /\ db'.conn.uri = UriOf(db'.current_branch_id)
           /\ db'.all_branches[last'.name].uri = db'.conn.uri]_vars

\* the session has connected to the later of two branches named dev
C32_Witness ==
    /\ last.op = "connect_branch" /\ last.err = OK /\ last.name = "dev"
    /\ Cardinality({b \in neon : b.name = "dev"}) = 2
    /\ db.current_branch_id = 3
    /\ db.conn.uri = UriOf(3)

----------------------------------------------------------------------------
\* Properties of the metrics slot across session operations

SessionOperations == {"create_branch", "connect_branch", "commit_changes", "execute_sql"}

\* C33: when create_branch, connect_branch, commit_changes or execute_sql
\* returns or raises, the slot's kind is UNSPECIFIED, and none of them raises
\* the operation-kind conflict.
C33_SlotUnspecifiedAfterCall ==
    [][last'.op \in SessionOperations =>
           /\ rc'.current_op_type = "UNSPECIFIED"
           /\ last'.err # "OperationKindConflict"]_vars

\* C34: in every reachable state of the recorder flush_record returns
\* normally, appends exactly one record and resets the metrics slot.
C34_FlushNeverFails ==
    LET f == flush_record(rc)
    IN  /\ f.err = OK
        /\ Len(f.rc.results) = Len(rc.results) + 1
        /\ SubSeq(f.rc.results, 1, Len(rc.results)) = rc.results
        /\ SlotIsDefault(f.rc)

\* C35: a timed scope that raises the operation-kind conflict leaves the
\* recorder as it was, the kind and the latency of the earlier scope
\* included, and a session operation whose scope raises it appends no record.
C35_ConflictKeepsSlot ==
    \A op_type \in OpType, t0 \in ClockReadings, t1 \in ClockReadings :
        t0 <= t1 =>
            LET scope == maybe_time_ops(rc, TRUE, op_type, OK, t0, t1)
                commit == commit_changes(rc, db, neon, driver, TRUE, TRUE, TRUE, t0, t1)
            IN  /\ scope.err = "OperationKindConflict" =>
                    /\ scope.rc.current_op_type = rc.current_op_type
                    /\ scope.rc.current_latency = rc.current_latency
                    /\ scope.rc = rc
                /\ commit.err = "OperationKindConflict" =>
                    /\ commit.rc.current_op_type = rc.current_op_type
                    /\ commit.rc.current_latency = rc.current_latency
                    /\ commit.rc.results = rc.results

\* a timed INSERT scope has raised the conflict, and the slot holds the READ
\* and the latency of the scope before it
C35_Witness ==
    /\ last.op = "maybe_time_ops" /\ last.name = "INSERT" /\ last.err = "OperationKindConflict"
    /\ rc.current_op_type = "READ"
    /\ rc.current_latency = 1
    /\ rc.results = <<>>

\* C36: whenever connect_branch raises, current_branch_name and
\* current_branch_id are what they were before the call.
C36_ConnectAllOrNothing ==
    [][(last'.op = "connect_branch" /\ last'.err # OK) =>
           /\ db'.current_branch_name = db.current_branch_name
           /\ db'.current_branch_id = db.current_branch_id]_vars

\* C37: in every state of the session the cache has an entry under
\* current_branch_name, and the id of that entry is current_branch_id.
C37_CacheHoldsCurrentBranch ==
    /\ db.current_branch_name \in DOMAIN db.all_branches
    /\ db.all_branches[db.current_branch_name].id = db.current_branch_id

\* C38: when the slot holds the kind and the latency of a completed timed
\* scope, another timed scope of that kind followed by flush_record gives a
\* record whose latency is the duration of the later scope alone.
C38_LastScopeLatency ==
    \A op_type \in OpType \ {"UNSPECIFIED"}, t0 \in ClockReadings, t1 \in ClockReadings :
        (t0 <= t1 /\ rc.current_op_type = op_type) =>
            LET scope == maybe_time_ops(rc, TRUE, op_type, OK, t0, t1)
                f == flush_record(scope.rc)
            IN  /\ scope.err = OK
                /\ scope.rc.current_latency = t1 - t0
                /\ f.err = OK =>
                       /\ Len(f.rc.results) = Len(rc.results) + 1
                       /\ LastRecord(f.rc).op_type = op_type
                       /\ LastRecord(f.rc).latency = t1 - t0

\* a READ scope of duration 1 has completed on a recorder with its context
\* set, and a second READ scope of duration 2 gives a record of latency 2
C38_Witness ==
    /\ last.op = "maybe_time_ops" /\ last.name = "READ" /\ last.err = OK
    /\ rc.current_op_type = "READ" /\ rc.current_latency = 1
    /\ rc.seed # Unset
    /\ LastRecord(flush_record(maybe_time_ops(rc, TRUE, "READ", OK, 0, 2).rc).rc).latency = 2

\* C39: when the body of a session operation raises, timed or not (the
\* driver fails in execute_sql or commit_changes, the control plane refuses
\* create_branch, any step of connect_branch's body fails), the call raises
\* and the recorder is left as it was: its records and counter, the slot's
\* kind, latency, num_keys_touched and sql_query, and the context.
C39_FailureLeavesRecorder ==
    require_connection(db) =>
        /\ \A timed \in BOOLEAN :
               /\ \A query \in AllInputs.queries, args \in AllInputs.args :
                      LET out == execute_sql(rc, db, neon, driver, query, args, timed,
                                             FALSE, 0, 1)
                      IN  out.err = "DriverError" /\ out.rc = rc
               /\ LET out == commit_changes(rc, db, neon, driver, timed, TRUE, FALSE, 0, 1)
                  IN  out.err = "DriverError" /\ out.rc = rc
               /\ \A branch_name \in SessionInputs.names, fail \in ConnectFailures,
                     listing \in Listings(neon) :
                      LET body == connect_branch_impl(rc, db, neon, driver, branch_name,
                                                      fail, listing)
                          out == connect_branch(rc, db, neon, driver, branch_name, timed,
                                                fail, listing, 0, 1)
                      IN  body.err # OK => (out.err = body.err /\ out.rc = rc)
        /\ \A branch_name \in SessionInputs.new_names, parent_id \in {NoId, db.current_branch_id} :
               LET out == create_branch(rc, db, neon, driver, branch_name, parent_id,
                                        FALSE, 0, 1)
               IN  out.err = "ExternalAPIError" /\ out.rc = rc

\* num_keys_touched was recorded on a recorder with its context set; the
\* driver fails a timed execute_sql, and the record flushed next carries the
\* value
C39_Witness ==
    /\ rc.num_keys_touched = 1
    /\ rc.seed # Unset
    /\ rc.current_op_type = "UNSPECIFIED"
    /\ ~db.conn.closed
    /\ LET out == execute_sql(rc, db, neon, driver, QuerySelect, <<>>, TRUE, FALSE, 0, 1)
       IN  /\ out.err = "DriverError"
           /\ out.rc.num_keys_touched = 1
           /\ LastRecord(flush_record(out.rc).rc).num_keys_touched = 1

====
